---------------------------- MODULE Spec2Model ----------------------------
(***************************************************************************)
(* A model of scripts/analyze-session.py: the session analyser's read      *)
(* pass, its metrics computation, the session file locator and main's      *)
(* exit status.                                                            *)
(*                                                                         *)
(* Instants are whole seconds since 2024-01-01T00:00:00 (UTC).  Every      *)
(* quantity the script computes with Python floats (IEEE-754 binary64,     *)
(* round to nearest, ties to even) is computed here with the same          *)
(* rounding, on exact naturals held as little-endian sequences of 15-bit   *)
(* limbs.  The values that occur are far from the overflow and subnormal   *)
(* ranges, which are not modelled.                                         *)
(***************************************************************************)
EXTENDS Integers, Sequences, FiniteSets, TLC

(***************************************************************************)
(* Exact naturals: <<>> is 0, the last limb of a number is never 0.        *)
(***************************************************************************)
LimbBits == 15
LimbBase == 2 ^ LimbBits

RECURSIVE BigFromInt(_)
BigFromInt(k) ==
    IF k = 0 THEN << >> ELSE <<k % LimbBase>> \o BigFromInt(k \div LimbBase)

RECURSIVE BigNorm(_)
BigNorm(a) ==
    IF a = << >> THEN << >>
    ELSE IF a[Len(a)] = 0 THEN BigNorm(SubSeq(a, 1, Len(a) - 1))
    ELSE a

Limb(a, i) == IF i <= Len(a) THEN a[i] ELSE 0

RECURSIVE BigAddC(_, _, _, _)
BigAddC(a, b, i, c) ==
    IF i > Len(a) /\ i > Len(b)
    THEN (IF c = 0 THEN << >> ELSE <<c>>)
    ELSE LET s == Limb(a, i) + Limb(b, i) + c
         IN  <<s % LimbBase>> \o BigAddC(a, b, i + 1, s \div LimbBase)

BigAdd(a, b) == BigAddC(a, b, 1, 0)

\* a - b for a >= b
RECURSIVE BigSubB(_, _, _, _)
BigSubB(a, b, i, br) ==
    IF i > Len(a) THEN << >>
    ELSE LET d == Limb(a, i) - Limb(b, i) - br
         IN  IF d < 0 THEN <<d + LimbBase>> \o BigSubB(a, b, i + 1, 1)
             ELSE <<d>> \o BigSubB(a, b, i + 1, 0)

BigSub(a, b) == BigNorm(BigSubB(a, b, 1, 0))

\* -1, 0, 1 as a < b, a = b, a > b
RECURSIVE BigCmpAt(_, _, _)
BigCmpAt(a, b, i) ==
    IF i = 0 THEN 0
    ELSE IF a[i] < b[i] THEN -1
    ELSE IF a[i] > b[i] THEN 1
    ELSE BigCmpAt(a, b, i - 1)

BigCmp(a, b) ==
    IF Len(a) < Len(b) THEN -1
    ELSE IF Len(a) > Len(b) THEN 1
    ELSE BigCmpAt(a, b, Len(a))

\* a * d for 0 <= d < LimbBase
RECURSIVE BigMulC(_, _, _, _)
BigMulC(a, d, i, c) ==
    IF i > Len(a) THEN (IF c = 0 THEN << >> ELSE <<c>>)
    ELSE LET p == a[i] * d + c
         IN  <<p % LimbBase>> \o BigMulC(a, d, i + 1, p \div LimbBase)

BigMulSmall(a, d) == IF d = 0 THEN << >> ELSE BigMulC(a, d, 1, 0)

\* [q, r] with a = q * d + r, for 0 < d < LimbBase
RECURSIVE BigDivC(_, _, _, _)
BigDivC(a, d, i, r) ==
    IF i = 0 THEN [q |-> << >>, r |-> r]
    ELSE LET n    == r * LimbBase + a[i]
             rest == BigDivC(a, d, i - 1, n % d)
         IN  [q |-> Append(rest.q, n \div d), r |-> rest.r]

BigDivSmall(a, d) ==
    LET res == BigDivC(a, d, Len(a), 0)
    IN  [q |-> BigNorm(res.q), r |-> res.r]

Zeros(n) == [i \in 1..n |-> 0]

BigShl(a, k) ==
    IF a = << >> THEN << >>
    ELSE Zeros(k \div LimbBits) \o BigMulSmall(a, 2 ^ (k % LimbBits))

BigShr(a, k) ==
    IF k \div LimbBits >= Len(a) THEN << >>
    ELSE BigDivSmall(SubSeq(a, k \div LimbBits + 1, Len(a)), 2 ^ (k % LimbBits)).q

RECURSIVE IntBitLen(_)
IntBitLen(n) == IF n = 0 THEN 0 ELSE 1 + IntBitLen(n \div 2)

BigBitLen(a) ==
    IF a = << >> THEN 0 ELSE LimbBits * (Len(a) - 1) + IntBitLen(a[Len(a)])

\* bit i (bit 0 is the lowest) of a
BigBit(a, i) == (Limb(a, i \div LimbBits + 1) \div (2 ^ (i % LimbBits))) % 2

\* whether the k lowest bits of a are all 0
BigLowZero(a, k) ==
    /\ \A i \in 1..(k \div LimbBits) : Limb(a, i) = 0
    /\ Limb(a, k \div LimbBits + 1) % (2 ^ (k % LimbBits)) = 0

(***************************************************************************)
(* Python floats: [s |-> 1 or -1, m |-> mantissa, e |-> exponent] stands   *)
(* for s * m * 2^e, with m of exactly MantBits bits, or m = <<>> for 0.    *)
(***************************************************************************)
MantBits == 53

FZero == [s |-> 1, m |-> << >>, e |-> 0]

\* s * n * 2^e (plus less than one unit of n when sticky), rounded to
\* MantBits bits: to nearest, ties to even
FRound(s, n, e, sticky) ==
    LET bl == BigBitLen(n)
    IN  IF bl = 0 THEN FZero
        ELSE IF bl <= MantBits
        THEN [s |-> s, m |-> BigShl(n, MantBits - bl), e |-> e - (MantBits - bl)]
        ELSE LET sh   == bl - MantBits
                 q    == BigShr(n, sh)
                 half == BigBit(n, sh - 1) = 1
                 rest == sticky \/ ~BigLowZero(n, sh - 1)
                 up   == half /\ (rest \/ BigBit(q, 0) = 1)
                 r    == IF up THEN BigAdd(q, <<1>>) ELSE q
             IN  IF BigBitLen(r) > MantBits
                 THEN [s |-> s, m |-> BigShr(r, 1), e |-> e + sh + 1]
                 ELSE [s |-> s, m |-> r, e |-> e + sh]

\* float(k) for an int k
FromInt(k) ==
    IF k < 0 THEN FRound(-1, BigFromInt(-k), 0, FALSE)
    ELSE FRound(1, BigFromInt(k), 0, FALSE)

FNeg(x) == IF x.m = << >> THEN x ELSE [x EXCEPT !.s = -x.s]

\* -1, 0, 1 as |x| < |y|, |x| = |y|, |x| > |y|
FCmpAbs(x, y) ==
    IF x.m = << >> THEN (IF y.m = << >> THEN 0 ELSE -1)
    ELSE IF y.m = << >> THEN 1
    ELSE IF x.e < y.e THEN -1
    ELSE IF x.e > y.e THEN 1
    ELSE BigCmp(x.m, y.m)

\* -1, 0, 1 as x < y, x = y, x > y
FCmp(x, y) ==
    IF x.m = << >> /\ y.m = << >> THEN 0
    ELSE IF x.m = << >> THEN -y.s
    ELSE IF y.m = << >> THEN x.s
    ELSE IF x.s # y.s THEN x.s
    ELSE x.s * FCmpAbs(x, y)

FLt(x, y) == FCmp(x, y) < 0
FLe(x, y) == FCmp(x, y) <= 0
FEq(x, y) == FCmp(x, y) = 0

\* x + y
FAdd(x, y) ==
    IF x.m = << >> THEN y
    ELSE IF y.m = << >> THEN x
    ELSE LET e  == IF x.e < y.e THEN x.e ELSE y.e
             a  == BigShl(x.m, x.e - e)
             b  == BigShl(y.m, y.e - e)
             c  == BigCmp(a, b)
         IN  IF x.s = y.s THEN FRound(x.s, BigAdd(a, b), e, FALSE)
             ELSE IF c = 0 THEN FZero
             ELSE IF c > 0 THEN FRound(x.s, BigSub(a, b), e, FALSE)
             ELSE FRound(y.s, BigSub(b, a), e, FALSE)

\* x - y
FSub(x, y) == FAdd(x, FNeg(y))

\* x * k for an int k, 0 < k < LimbBase
FMulInt(x, k) == FRound(x.s, BigMulSmall(x.m, k), x.e, FALSE)

\* x / k for an int k, 0 < k < LimbBase
FDivInt(x, k) ==
    LET d == BigDivSmall(BigShl(x.m, 2 * LimbBits), k)
    IN  FRound(x.s, d.q, x.e - 2 * LimbBits, d.r # 0)

\* the largest q with d * q <= r, at or below the estimate qhat
RECURSIVE FixDigit(_, _, _)
FixDigit(r, d, qhat) ==
    IF BigCmp(BigMulSmall(d, qhat), r) > 0 THEN FixDigit(r, d, qhat - 1) ELSE qhat

\* r \div d for r < d * LimbBase, the highest bit of d's last limb being 1:
\* estimated from the leading limbs, then corrected
QuotDigit(r, d) ==
    IF Len(r) < Len(d) THEN 0
    ELSE LET top  == Limb(r, Len(d) + 1) * LimbBase + r[Len(d)]
             qhat == top \div d[Len(d)]
         IN  FixDigit(r, d, IF qhat >= LimbBase THEN LimbBase - 1 ELSE qhat)

\* [q, r]: long division of the limbs i..1 of n by d, r being the remainder
\* of the limbs above them
RECURSIVE BigDivLimbs(_, _, _, _)
BigDivLimbs(n, d, i, r) ==
    IF i = 0 THEN [q |-> << >>, r |-> r]
    ELSE LET cur  == BigNorm(<<n[i]>> \o r)
             qd   == QuotDigit(cur, d)
             rest == BigDivLimbs(n, d, i - 1, BigSub(cur, BigMulSmall(d, qd)))
         IN  [q |-> Append(rest.q, qd), r |-> rest.r]

\* [q, r] with n = q * d + r, for d # 0
BigDivMod(n, d) ==
    LET sh  == LimbBits - IntBitLen(d[Len(d)])
        dn  == BigShl(d, sh)
        nn  == BigShl(n, sh)
        res == BigDivLimbs(nn, dn, Len(nn), << >>)
    IN  [q |-> BigNorm(res.q), r |-> BigShr(res.r, sh)]

\* x / y for y # 0
FDiv(x, y) ==
    IF x.m = << >> THEN FZero
    ELSE LET d == BigDivMod(BigShl(x.m, 4 * LimbBits), y.m)
         IN  FRound(x.s * y.s, d.q, x.e - y.e - 4 * LimbBits, d.r # << >>)

(***************************************************************************)
(* Exceptions, and the classes an except clause names.                     *)
(***************************************************************************)
NoExc == "none"

Bases(cls) ==
    CASE cls = "JSONDecodeError"   -> {"JSONDecodeError", "ValueError", "Exception"}
      [] cls = "ValueError"        -> {"ValueError", "Exception"}
      [] cls = "KeyError"          -> {"KeyError", "LookupError", "Exception"}
      [] cls = "TypeError"         -> {"TypeError", "Exception"}
      [] cls = "FileNotFoundError" -> {"FileNotFoundError", "OSError", "Exception"}
      [] OTHER                     -> {cls}

\* whether "except <classes>" catches an exception of class cls
Catches(classes, cls) == Bases(cls) \cap classes # {}

(***************************************************************************)
(* Timestamp strings and datetimes.  A timestamp string is a date-time     *)
(* with a trailing "Z", with the offset "+00:00", or with no offset, or is *)
(* not ISO-8601 at all; a datetime is an instant that is aware (carries an *)
(* offset) or naive.                                                       *)
(***************************************************************************)
TsZ(t)      == [form |-> "Z", sec |-> t]
TsOffset(t) == [form |-> "offset", sec |-> t]
TsNaive(t)  == [form |-> "naive", sec |-> t]
TsInvalid   == [form |-> "invalid", sec |-> 0]
EmptyStr    == [form |-> "empty", sec |-> 0]
None        == [form |-> "None", sec |-> 0]

\* an argument that "if start_time" takes as given
Truthy(str) == str # None /\ str # EmptyStr

Raise(cls)  == [exc |-> cls]
Return(v)   == [exc |-> NoExc, val |-> v]

\* parse_timestamp: "Z" is replaced by "+00:00", then datetime.fromisoformat
parse_timestamp(ts_str) ==
    LET replaced == IF ts_str.form = "Z" THEN TsOffset(ts_str.sec) ELSE ts_str
    IN  CASE replaced.form = "offset" -> Return([sec |-> replaced.sec, aware |-> TRUE])
          [] replaced.form = "naive"  -> Return([sec |-> replaced.sec, aware |-> FALSE])
          [] OTHER                    -> Raise("ValueError")

\* datetime.isoformat
isoformat(dt) == IF dt.aware THEN TsOffset(dt.sec) ELSE TsNaive(dt.sec)

\* ts.hour
HourOf(dt) == (dt.sec \div 3600) % 24

\* a < b, a <= b on datetimes: TypeError between a naive and an aware one
DtLess(a, b) ==
    IF a.aware # b.aware THEN Raise("TypeError") ELSE Return(a.sec < b.sec)

DtLessEq(a, b) ==
    IF a.aware # b.aware THEN Raise("TypeError") ELSE Return(a.sec <= b.sec)

(***************************************************************************)
(* Lines of a session file.                                                *)
(***************************************************************************)
Garbage     == [kind |-> "garbage", ts |-> None]      \* not JSON (or blank)
Scalar      == [kind |-> "scalar", ts |-> None]       \* JSON null or a number
NoTimestamp == [kind |-> "object", ts |-> None]       \* an object, no timestamp
Record(str) == [kind |-> "object", ts |-> str]        \* {"timestamp": str}
NoLine      == [kind |-> "none", ts |-> None]

IsBadTimestampRecord(l) == l.kind = "object" /\ l.ts = TsInvalid

(***************************************************************************)
(* calculate_gaps and the metrics of analyze_session_file, lines 66-114.   *)
(***************************************************************************)
\* (b - a).total_seconds() / 60
GapMinutes(a, b) == FDivInt(FromInt(b.sec - a.sec), 60)

\* calculate_gaps with range(2, len(timestamps)): the first gap is lost
calculate_gaps_from_second(tss) ==
    [i \in 1..(Len(tss) - 2) |-> GapMinutes(tss[i + 1], tss[i + 2])]

calculate_gaps(tss) == [i \in 1..(Len(tss) - 1) |-> GapMinutes(tss[i], tss[i + 1])]

IsShort(g)    == FLt(g, FromInt(5))
\* IsModerate with 5 < g: a gap of exactly 5 minutes is in no bucket
IsModerateExclusive(g) == FLt(FromInt(5), g) /\ FLt(g, FromInt(30))

IsModerate(g) == FLe(FromInt(5), g) /\ FLt(g, FromInt(30))
IsLong(g)     == FLe(FromInt(30), g)

ShortGaps(gs)    == SelectSeq(gs, IsShort)
ModerateGaps(gs) == SelectSeq(gs, IsModerate)
LongGaps(gs)     == SelectSeq(gs, IsLong)

\* sum(xs): 0 + xs[1] + xs[2] + ..., left to right
RECURSIVE FSumFrom(_, _, _)
FSumFrom(xs, i, acc) ==
    IF i > Len(xs) THEN acc ELSE FSumFrom(xs, i + 1, FAdd(acc, xs[i]))

FSum(xs) == FSumFrom(xs, 1, FZero)

\* max(xs) if xs else 0
RECURSIVE FMaxFrom(_, _, _)
FMaxFrom(xs, i, best) ==
    IF i > Len(xs) THEN best
    ELSE FMaxFrom(xs, i + 1, IF FLt(best, xs[i]) THEN xs[i] ELSE best)

LongestGap(gs) == IF gs = << >> THEN FZero ELSE FMaxFrom(gs, 2, gs[1])

\* hourly_activity after the loop of lines 85-87: the (hour, count) items of
\* the dict, in the order the hours were first met
RECURSIVE HourlyFrom(_, _, _)
HourlyFrom(tss, i, items) ==
    IF i > Len(tss) THEN items
    ELSE LET h == HourOf(tss[i])
         IN  IF \E k \in 1..Len(items) : items[k].hour = h
             THEN HourlyFrom(tss, i + 1,
                      [k \in 1..Len(items) |->
                          IF items[k].hour = h
                          THEN [items[k] EXCEPT !.count = @ + 1]
                          ELSE items[k]])
             ELSE HourlyFrom(tss, i + 1, Append(items, [hour |-> h, count |-> 1]))

HourlyActivity(tss) == HourlyFrom(tss, 1, << >>)

\* Before with >= on the counts: an unstable sort, ties come out reversed
BeforeOrEqual(key, x, y) ==
    IF key = "hour" THEN x.hour < y.hour ELSE x.count >= y.count

\* the order of sorted(items) by hour, and of
\* sorted(items, key=lambda x: x[1], reverse=True) by count
Before(key, x, y) == IF key = "hour" THEN x.hour < y.hour ELSE x.count > y.count

\* sorted is stable: items that compare equal keep their order
RECURSIVE InsertSorted(_, _, _)
InsertSorted(sorted, x, key) ==
    IF sorted = << >> THEN <<x>>
    ELSE IF Before(key, x, Head(sorted)) THEN <<x>> \o sorted
    ELSE <<Head(sorted)>> \o InsertSorted(Tail(sorted), x, key)

RECURSIVE StableSort(_, _, _)
StableSort(items, i, key) ==
    IF i = 0 THEN << >>
    ELSE InsertSorted(StableSort(items, i - 1, key), items[i], key)

\* dict(sorted(hourly_activity.items()))
SortedHourly(items) == StableSort(items, Len(items), "hour")

\* PeakHours without the sort: the first three hours met
PeakHoursUnsorted(items) == SubSeq(items, 1, IF Len(items) < 3 THEN Len(items) ELSE 3)

\* sorted(hourly_activity.items(), key=lambda x: x[1], reverse=True)[:3]
PeakHours(items) ==
    LET s == StableSort(items, Len(items), "count")
    IN  SubSeq(s, 1, IF Len(s) < 3 THEN Len(s) ELSE 3)

\* ActivityPercentage without "* 100": a ratio, not a percentage
ActivityRatio(total_active_time, total_duration) ==
    IF FLt(FZero, total_duration)
    THEN FDiv(total_active_time, FDivInt(total_duration, 60))
    ELSE FZero

\* (total_active_time / (total_duration / 60)) * 100 if total_duration > 0 else 0
ActivityPercentage(total_active_time, total_duration) ==
    IF FLt(FZero, total_duration)
    THEN FMulInt(FDiv(total_active_time, FDivInt(total_duration, 60)), 100)
    ELSE FZero

\* the dict returned at lines 94-114 for a non-empty list of datetimes that
\* are all aware or all naive and the gaps of line 72 (the rates of lines
\* 90-92 and avg_moderate_gap are left out)
Metrics(tss, n_events, gs) ==
    LET session_start     == tss[1]
        session_end       == tss[Len(tss)]
        total_duration    == FromInt(session_end.sec - session_start.sec)
        long_gaps         == LongGaps(gs)
        total_idle_time   == FSum(long_gaps)
        total_active_time == FSub(FDivInt(total_duration, 60), total_idle_time)
        items             == HourlyActivity(tss)
    IN  [error               |-> "",
         session_start       |-> isoformat(session_start),
         session_end         |-> isoformat(session_end),
         total_duration      |-> total_duration,
         total_events        |-> n_events,
         total_active_time   |-> total_active_time,
         total_idle_time     |-> total_idle_time,
         activity_percentage |-> ActivityPercentage(total_active_time, total_duration),
         short_gaps          |-> Len(ShortGaps(gs)),
         moderate_gaps       |-> Len(ModerateGaps(gs)),
         long_gaps           |-> Len(long_gaps),
         longest_gap         |-> LongestGap(gs),
         hourly_activity     |-> SortedHourly(items),
         peak_hours          |-> PeakHours(items)]

NoAnalysis  == [error |-> "not run"]
EmptyRange  == [error |-> "No valid timestamps found in range"]

(***************************************************************************)
(* Inputs.  Instants of the night of 2024-01-01: 23:00:00, 23:02:00,       *)
(* 23:05:00, 23:30:00, 23:40:00, then 00:01:40, 01:01:40 and 02:01:40 of   *)
(* the next day.                                                           *)
(***************************************************************************)
InstantAt == <<82800, 82920, 83100, 84600, 85200, 86500, 90100, 93700>>

Instants == {InstantAt[i] : i \in 1..Len(InstantAt)}

\* the instants of the log lines of a run of main
LogInstants == {InstantAt[i] : i \in 1..5}

MaxEvents     == 4    \* timestamps handed to the metrics computation
MaxLines      == 3    \* lines of a session file
MaxCandidates == 2    \* session files in the project's directory

EmptyLine == [kind |-> "empty", ts |-> None]

LogLines ==
    {Garbage, Scalar, NoTimestamp, Record(TsInvalid),
     Record(TsOffset(InstantAt[3])), Record(TsNaive(InstantAt[3]))}
    \cup {Record(TsZ(t)) : t \in LogInstants}

StartArgs == {EmptyStr, TsInvalid, TsZ(InstantAt[2]), TsNaive(InstantAt[2])}
EndArgs   == {None, TsInvalid, TsZ(InstantAt[4])}

CandidateLines ==
    {Garbage, Scalar, NoTimestamp, Record(TsInvalid), Record(TsNaive(InstantAt[3])),
     Record(TsZ(InstantAt[1])), Record(TsZ(InstantAt[3]))}

Candidates ==
    [first : CandidateLines \cup {EmptyLine}, last : CandidateLines \cup {EmptyLine}]

(***************************************************************************)
(* State.                                                                  *)
(***************************************************************************)
VARIABLES
    pc,            \* where main is
    args,          \* --start, --end, and whether --session-file was given
    env,           \* whether the project's directory and the given file exist
    find_start_dt, \* find_session_file's start_dt
    examined,      \* the candidates find_session_file has examined
    cand,          \* the last of them
    file,          \* the session file main analyses
    start_dt,      \* analyze_session_file's start_dt
    end_dt,        \* and end_dt
    nread,         \* the lines read so far
    line,          \* the last of them
    parsed,        \* the timestamps of the records read so far, in order
    timestamps,
    total_events,
    gaps,
    analysis,      \* what analyze_session_file returned
    exc,           \* the exception being propagated
    printed,       \* what main printed last: the report or an error
    exit_code      \* main's return value, -1 until it returns

vars == <<pc, args, env, find_start_dt, examined, cand, file, start_dt, end_dt,
          nread, line, parsed, timestamps, total_events, gaps, analysis, exc,
          printed, exit_code>>

NoneDt   == [sec |-> -1, aware |-> FALSE]
NoCand   == [first |-> NoLine, last |-> NoLine]
Explicit == [located |-> FALSE, first |-> NoLine, last |-> NoLine]
Located(c) == [located |-> TRUE, first |-> c.first, last |-> c.last]

Idle ==
    /\ find_start_dt = NoneDt
    /\ examined = 0
    /\ cand = NoCand
    /\ file = Explicit
    /\ start_dt = NoneDt
    /\ end_dt = NoneDt
    /\ nread = 0
    /\ line = NoLine
    /\ gaps = << >>
    /\ analysis = NoAnalysis
    /\ exc = NoExc
    /\ printed = "nothing"
    /\ exit_code = -1

\* main after parse_args
Init ==
    /\ pc = "main"
    /\ args \in [start : StartArgs, end : EndArgs, session_file : BOOLEAN]
    /\ env \in [dir_exists : BOOLEAN, file_exists : BOOLEAN]
    /\ (args.session_file => env.dir_exists)
    /\ (~args.session_file => env.file_exists)
    /\ parsed = << >>
    /\ timestamps = << >>
    /\ total_events = 0
    /\ Idle

(***************************************************************************)
(* find_session_file                                                       *)
(***************************************************************************)
\* json.loads(l), entry['timestamp'], parse_timestamp: lines 132-133, 141-142
RecordTimestamp(l) ==
    CASE l.kind \in {"garbage", "empty"} -> Raise("JSONDecodeError")
      [] l.kind = "scalar"               -> Raise("TypeError")
      [] l.ts = None                     -> Raise("KeyError")
      [] OTHER                           -> parse_timestamp(l.ts)

\* first_ts <= start_dt <= last_ts
InRange(first_ts, target, last_ts) ==
    LET lo == DtLessEq(first_ts, target)
    IN  IF lo.exc # NoExc \/ ~lo.val THEN lo ELSE DtLessEq(target, last_ts)

\* the body of the try of lines 127-146 for one candidate: whether it is
\* returned, or the exception raised
ExamineCandidate(c, target) ==
    IF c.first.kind = "empty" THEN Return(FALSE)
    ELSE LET first_ts == RecordTimestamp(c.first)
             last_ts  == RecordTimestamp(c.last)
         IN  IF first_ts.exc # NoExc THEN first_ts
             ELSE IF last_ts.exc # NoExc THEN last_ts
             ELSE InRange(first_ts.val, target, last_ts.val)

\* except (json.JSONDecodeError, KeyError): line 147
FindHandled == {"JSONDecodeError", "KeyError"}

\* lines 215-218 and, with no --session-file, lines 118-123
MainResolve ==
    /\ pc = "main"
    /\ IF args.session_file
       THEN pc' = "analyze" /\ UNCHANGED <<find_start_dt, exc>>
       ELSE IF ~env.dir_exists
       THEN pc' = "except" /\ exc' = "FileNotFoundError" /\ UNCHANGED find_start_dt
       ELSE LET t == parse_timestamp(args.start)
            IN  IF t.exc # NoExc
                THEN pc' = "except" /\ exc' = t.exc /\ UNCHANGED find_start_dt
                ELSE pc' = "find" /\ find_start_dt' = t.val /\ UNCHANGED exc
    /\ UNCHANGED <<args, env, examined, cand, file, start_dt, end_dt, nread, line,
                   parsed, timestamps, total_events, gaps, analysis, printed,
                   exit_code>>

\* one round of the loop of lines 126-148
FindExamine(c) ==
    /\ pc = "find"
    /\ examined < MaxCandidates
    /\ examined' = examined + 1
    /\ cand' = c
    /\ LET r == ExamineCandidate(c, find_start_dt)
       IN  IF r.exc # NoExc
           THEN IF Catches(FindHandled, r.exc)
                THEN UNCHANGED <<pc, exc, file>>
                ELSE pc' = "except" /\ exc' = r.exc /\ UNCHANGED file
           ELSE IF r.val
           THEN pc' = "analyze" /\ file' = Located(c) /\ UNCHANGED exc
           ELSE UNCHANGED <<pc, exc, file>>
    /\ UNCHANGED <<args, env, find_start_dt, start_dt, end_dt, nread, line, parsed,
                   timestamps, total_events, gaps, analysis, printed, exit_code>>

\* line 150
FindExhausted ==
    /\ pc = "find"
    /\ pc' = "except"
    /\ exc' = "FileNotFoundError"
    /\ UNCHANGED <<args, env, find_start_dt, examined, cand, file, start_dt, end_dt,
                   nread, line, parsed, timestamps, total_events, gaps, analysis,
                   printed, exit_code>>

(***************************************************************************)
(* analyze_session_file                                                    *)
(***************************************************************************)
\* parse_timestamp(start_time) if start_time else None: lines 40-41
ParseBound(str) == IF Truthy(str) THEN parse_timestamp(str) ELSE Return(NoneDt)

\* lines 37-45
AnalyzeEnter ==
    /\ pc = "analyze"
    /\ LET s == ParseBound(args.start)
           e == ParseBound(args.end)
       IN  IF s.exc # NoExc
           THEN pc' = "except" /\ exc' = s.exc /\ UNCHANGED <<start_dt, end_dt>>
           ELSE IF e.exc # NoExc
           THEN pc' = "except" /\ exc' = e.exc /\ UNCHANGED <<start_dt, end_dt>>
           ELSE IF ~file.located /\ ~env.file_exists
           THEN pc' = "except" /\ exc' = "FileNotFoundError"
                /\ UNCHANGED <<start_dt, end_dt>>
           ELSE pc' = "read" /\ start_dt' = s.val /\ end_dt' = e.val /\ UNCHANGED exc
    /\ timestamps' = << >>
    /\ total_events' = 0
    /\ UNCHANGED <<args, env, find_start_dt, examined, cand, file, nread, line,
                   parsed, gaps, analysis, printed, exit_code>>

Skipped     == [parsed |-> FALSE, accept |-> FALSE, ts |-> NoneDt]
Filtered(t) == [parsed |-> TRUE, accept |-> FALSE, ts |-> t]
Accepted(t) == [parsed |-> TRUE, accept |-> TRUE, ts |-> t]

\* FilterTimestamp with <= and >=: the bounds themselves are left out
FilterTimestampExclusive(ts, lo, hi) ==
    LET early == IF lo # NoneDt THEN DtLessEq(ts, lo) ELSE Return(FALSE)
        late  == IF hi # NoneDt THEN DtLessEq(hi, ts) ELSE Return(FALSE)
    IN  IF early.exc # NoExc THEN early
        ELSE IF early.val THEN Return(Filtered(ts))
        ELSE IF late.exc # NoExc THEN late
        ELSE IF late.val THEN Return(Filtered(ts))
        ELSE Return(Accepted(ts))

\* if start_dt and ts < start_dt: continue; if end_dt and ts > end_dt:
\* continue; append: lines 53-59
FilterTimestamp(ts, lo, hi) ==
    LET early == IF lo # NoneDt THEN DtLess(ts, lo) ELSE Return(FALSE)
        late  == IF hi # NoneDt THEN DtLess(hi, ts) ELSE Return(FALSE)
    IN  IF early.exc # NoExc THEN early
        ELSE IF early.val THEN Return(Filtered(ts))
        ELSE IF late.exc # NoExc THEN late
        ELSE IF late.val THEN Return(Filtered(ts))
        ELSE Return(Accepted(ts))

\* the body of the try of lines 48-59 for one line
ProcessLine(l, lo, hi) ==
    CASE l.kind \in {"garbage", "empty"} -> Raise("JSONDecodeError")
      [] l.kind = "scalar"               -> Raise("TypeError")
      [] l.ts = None                     -> Return(Skipped)
      [] OTHER ->
           LET ts == parse_timestamp(l.ts)
           IN  IF ts.exc # NoExc THEN ts ELSE FilterTimestamp(ts.val, lo, hi)

\* except json.JSONDecodeError: line 60
ReadHandled == {"JSONDecodeError"}

\* one round of the loop of lines 46-61; a located file begins and ends with
\* the records its range was read from
ReadLine(l) ==
    /\ pc = "read"
    /\ nread < MaxLines
    /\ (file.located /\ nread = 0) => l = file.first
    /\ (file.located /\ nread + 1 = MaxLines) => l = file.last
    /\ nread' = nread + 1
    /\ line' = l
    /\ LET r == ProcessLine(l, start_dt, end_dt)
       IN  IF r.exc # NoExc
           THEN /\ IF Catches(ReadHandled, r.exc)
                   THEN UNCHANGED <<pc, exc>>
                   ELSE pc' = "except" /\ exc' = r.exc
                /\ UNCHANGED <<parsed, timestamps, total_events>>
           ELSE /\ parsed' = IF r.val.parsed THEN Append(parsed, r.val.ts) ELSE parsed
                /\ timestamps' =
                       IF r.val.accept THEN Append(timestamps, r.val.ts) ELSE timestamps
                /\ total_events' =
                       IF r.val.accept THEN total_events + 1 ELSE total_events
                /\ UNCHANGED <<pc, exc>>
    /\ UNCHANGED <<args, env, find_start_dt, examined, cand, file, start_dt, end_dt,
                   gaps, analysis, printed, exit_code>>

\* the end of the file: a located file ends with the record its range was
\* read from
ReadEOF ==
    /\ pc = "read"
    /\ file.located => (nread >= 1 /\ line = file.last)
    /\ pc' = "metrics"
    /\ UNCHANGED <<args, env, find_start_dt, examined, cand, file, start_dt, end_dt,
                   nread, line, parsed, timestamps, total_events, gaps, analysis,
                   exc, printed, exit_code>>

\* whether a subtraction of lines 69 or 30 meets a naive and an aware datetime
MixedAwareness(tss) == \E i, j \in 1..Len(tss) : tss[i].aware # tss[j].aware

\* lines 63-114
ComputeMetrics ==
    /\ pc = "metrics"
    /\ IF timestamps = << >>
       THEN pc' = "returned" /\ analysis' = EmptyRange /\ UNCHANGED <<gaps, exc>>
       ELSE IF MixedAwareness(timestamps)
       THEN pc' = "except" /\ exc' = "TypeError" /\ UNCHANGED <<gaps, analysis>>
       ELSE LET gs == calculate_gaps(timestamps)
            IN  /\ pc' = "returned"
                /\ gaps' = gs
                /\ analysis' = Metrics(timestamps, total_events, gs)
                /\ UNCHANGED exc
    /\ UNCHANGED <<args, env, find_start_dt, examined, cand, file, start_dt, end_dt,
                   nread, line, parsed, timestamps, total_events, printed, exit_code>>

(***************************************************************************)
(* main                                                                    *)
(***************************************************************************)
\* lines 223-228
MainFinish ==
    /\ pc = "returned"
    /\ pc' = "done"
    /\ IF analysis.error # ""
       THEN printed' = "error" /\ exit_code' = 1
       ELSE printed' = "report" /\ exit_code' = 0
    /\ UNCHANGED <<args, env, find_start_dt, examined, cand, file, start_dt, end_dt,
                   nread, line, parsed, timestamps, total_events, gaps, analysis, exc>>

\* an except clause that names two classes only: a TypeError escapes
MainHandledNarrow == {"OSError", "ValueError"}

\* except Exception: line 230
MainHandled == {"Exception"}

\* lines 230-232
MainExcept ==
    /\ pc = "except"
    /\ IF Catches(MainHandled, exc)
       THEN pc' = "done" /\ printed' = "error" /\ exit_code' = 1
       ELSE pc' = "crashed" /\ UNCHANGED <<printed, exit_code>>
    /\ UNCHANGED <<args, env, find_start_dt, examined, cand, file, start_dt, end_dt,
                   nread, line, parsed, timestamps, total_events, gaps, analysis, exc>>

Next ==
    \/ MainResolve
    \/ \E c \in Candidates : FindExamine(c)
    \/ FindExhausted
    \/ AnalyzeEnter
    \/ \E l \in LogLines : ReadLine(l)
    \/ ReadEOF
    \/ ComputeMetrics
    \/ MainFinish
    \/ MainExcept

Spec == Init /\ [][Next]_vars

(***************************************************************************)
(* The metrics computation on its own: analyze_session_file at line 63,    *)
(* with any list of up to MaxEvents aware datetimes accepted by the read   *)
(* pass of an explicit session file and no time filter.                    *)
(***************************************************************************)
AwareDatetimes == {[sec |-> t, aware |-> TRUE] : t \in Instants}

InitMetrics ==
    /\ pc = "metrics"
    /\ args = [start |-> EmptyStr, end |-> None, session_file |-> TRUE]
    /\ env = [dir_exists |-> TRUE, file_exists |-> TRUE]
    /\ timestamps \in UNION {[1..n -> AwareDatetimes] : n \in 0..MaxEvents}
    /\ parsed = timestamps
    /\ total_events = Len(timestamps)
    /\ Idle

NextMetrics == ComputeMetrics

SpecMetrics == InitMetrics /\ [][NextMetrics]_vars

(***************************************************************************)
(* Properties of the metrics computation (SpecMetrics).                    *)
(***************************************************************************)
\* analyze_session_file has returned a metrics report
Reported == pc = "returned" /\ analysis.error = ""

NEvents == Len(timestamps)

\* seq[i+1] - seq[i] in seconds
SecondsBetween(i) == timestamps[i + 1].sec - timestamps[i].sec

NonDecreasing == \A i \in 1..(NEvents - 1) : SecondsBetween(i) >= 0

\* (last - first) in minutes, as a float
SpanMinutes == FDivInt(FromInt(timestamps[NEvents].sec - timestamps[1].sec), 60)

FAbs(x) == [x EXCEPT !.s = 1]

\* x * 2^k
FScale(x, k) == IF x.m = << >> THEN x ELSE [x EXCEPT !.e = @ + k]

\* whether the float g is a float nearest to d / 60, for d >= 0:
\* |60 * g - d| <= 60 * (half a unit in the last place of g)
NearestMinutes(g, d) ==
    IF d = 0 THEN g = FZero
    ELSE LET lhs == BigMulSmall(g.m, 60)
             rhs == BigShl(BigFromInt(d), -g.e)
             dif == IF BigCmp(lhs, rhs) >= 0 THEN BigSub(lhs, rhs) ELSE BigSub(rhs, lhs)
         IN  g.s = 1 /\ g.e < 0 /\ BigCmp(dif, BigFromInt(30)) <= 0

GapsShape ==
    /\ Len(gaps) = NEvents - 1
    /\ \A i \in 1..Len(gaps) : FLe(FZero, gaps[i])
    /\ \A i \in 1..Len(gaps) : NearestMinutes(gaps[i], SecondsBetween(i))

\* C2 as stated: for a non-decreasing sequence of N timestamps calculate_gaps
\* returns N-1 gaps (none for N = 0 or 1), each non-negative and equal to
\* seq[i+1] - seq[i] in minutes, and their sum equals (last - first) in minutes.
C2_GapsSumExactly ==
    /\ calculate_gaps(<< >>) = << >>
    /\ (Reported /\ NonDecreasing) =>
           (GapsShape /\ FEq(FSum(gaps), SpanMinutes))

\* C2 amended: as C2, but the sum of the gaps equals (last - first) in minutes
\* only up to the rounding of float arithmetic: they differ by at most
\* N * 2^-52 of (last - first) in minutes.
C2_GapsSumWithinRounding ==
    /\ calculate_gaps(<< >>) = << >>
    /\ (Reported /\ NonDecreasing) =>
           /\ GapsShape
           /\ FLe(FScale(FAbs(FSub(FSum(gaps), SpanMinutes)), 52),
                  FMulInt(SpanMinutes, NEvents))

\* three or more timestamps in order whose gaps do not sum to the span exactly
C2_Witness ==
    /\ Reported /\ NonDecreasing /\ NEvents >= 3
    /\ ~FEq(FSum(gaps), SpanMinutes)

GapsWhere(P(_)) == Cardinality({i \in 1..(NEvents - 1) : P(SecondsBetween(i))})

UnderFiveMinutes(d)   == d < 5 * 60
FiveToThirty(d)       == 5 * 60 <= d /\ d < 30 * 60
ThirtyMinutesOrMore(d) == d >= 30 * 60

\* C3: every gap of an analysed sequence of N >= 1 timestamps is counted in
\* exactly one of short (< 5 min), moderate (5 <= gap < 30) and long (>= 30),
\* a gap of exactly 5 as moderate and one of exactly 30 as long, so the three
\* counts sum to N-1.
C3_GapBucketsPartition ==
    Reported =>
        /\ analysis.short_gaps = GapsWhere(UnderFiveMinutes)
        /\ analysis.moderate_gaps = GapsWhere(FiveToThirty)
        /\ analysis.long_gaps = GapsWhere(ThirtyMinutesOrMore)
        /\ analysis.short_gaps + analysis.moderate_gaps + analysis.long_gaps
               = NEvents - 1

\* a sequence with a gap of exactly 5 minutes, one of exactly 30 and a short one
C3_Witness ==
    /\ Reported
    /\ \E i \in 1..(NEvents - 1) : SecondsBetween(i) = 5 * 60
    /\ \E i \in 1..(NEvents - 1) : SecondsBetween(i) = 30 * 60
    /\ analysis.short_gaps = 1 /\ analysis.moderate_gaps = 1 /\ analysis.long_gaps = 1

NoIdleTime == FEq(analysis.total_idle_time, FZero)

\* C4 as stated: for every non-empty analysed sequence, when idle_minutes = 0
\* the reported activity_percentage equals 100.
C4_NoIdleMeansFullActivity ==
    (Reported /\ NoIdleTime) => FEq(analysis.activity_percentage, FromInt(100))

\* C4 amended: when idle_minutes = 0, activity_percentage is 100 if the last
\* timestamp is later than the first, and 0 otherwise (total_duration <= 0: a
\* single event, events all at one instant, or a last event before the first).
C4_NoIdleFullActivityUnlessNoDuration ==
    (Reported /\ NoIdleTime) =>
        IF timestamps[NEvents].sec > timestamps[1].sec
        THEN FEq(analysis.activity_percentage, FromInt(100))
        ELSE FEq(analysis.activity_percentage, FZero)

\* several events over a positive duration, no long gap, 100 percent
C4_Witness ==
    /\ Reported /\ NoIdleTime /\ NEvents >= 3
    /\ timestamps[NEvents].sec > timestamps[1].sec
    /\ FEq(analysis.activity_percentage, FromInt(100))

RECURSIVE SumCounts(_, _)
SumCounts(items, i) == IF i = 0 THEN 0 ELSE items[i].count + SumCounts(items, i - 1)

InPeak(item) == \E k \in 1..Len(analysis.peak_hours) : analysis.peak_hours[k] = item

FirstSeen(h) ==
    CHOOSE i \in 1..NEvents :
        /\ HourOf(timestamps[i]) = h
        /\ \A j \in 1..(i - 1) : HourOf(timestamps[j]) # h

\* C6 as stated: in peak_hours, hours with equal counts are in ascending
\* order of hour, for every input; when more than 3 hours tie, the
\* lowest-numbered are the ones kept.
C6_TiesByAscendingHour ==
    Reported =>
        LET hourly == analysis.hourly_activity
            peak   == analysis.peak_hours
        IN  /\ \A j, k \in 1..Len(peak) :
                   (j < k /\ peak[j].count = peak[k].count)
                       => peak[j].hour < peak[k].hour
            /\ \A j \in 1..Len(hourly) : \A k \in 1..Len(peak) :
                   (~InPeak(hourly[j]) /\ hourly[j].count = peak[k].count)
                       => peak[k].hour < hourly[j].hour

\* C6 amended: in peak_hours, hours with equal counts are in the order in
\* which the hours first occur in the timestamp sequence (the insertion order
\* of the dict the counts are kept in), whatever their hour numbers; when
\* more than 3 hours tie, the ones met first are the ones kept.
C6_TiesByFirstOccurrence ==
    Reported =>
        LET hourly == analysis.hourly_activity
            peak   == analysis.peak_hours
        IN  /\ \A j, k \in 1..Len(peak) :
                   (j < k /\ peak[j].count = peak[k].count)
                       => FirstSeen(peak[j].hour) < FirstSeen(peak[k].hour)
            /\ \A j \in 1..Len(hourly) : \A k \in 1..Len(peak) :
                   (~InPeak(hourly[j]) /\ hourly[j].count = peak[k].count)
                       => FirstSeen(peak[k].hour) < FirstSeen(hourly[j].hour)

\* a session in chronological order that crosses midnight, four hours with
\* one event each: peak_hours is 23, 0, 1 and hour 2 is left out
C6_Witness ==
    /\ Reported /\ NonDecreasing
    /\ Len(analysis.hourly_activity) = 4
    /\ Len(analysis.peak_hours) = 3
    /\ analysis.peak_hours[1] = [hour |-> 23, count |-> 1]
    /\ analysis.peak_hours[2] = [hour |-> 0, count |-> 1]
    /\ analysis.peak_hours[3] = [hour |-> 1, count |-> 1]

\* the timestamps are s, s + 2 min, s + 40 min
IsExample ==
    /\ NEvents = 3
    /\ SecondsBetween(1) = 2 * 60
    /\ SecondsBetween(2) = 38 * 60

\* C10: for a non-empty non-decreasing sequence idle_minutes is the sum of
\* the gaps >= 30 minutes, active_minutes = total_minutes - idle_minutes,
\* 0 <= active_minutes <= total_minutes and 0 <= activity_percentage <= 100;
\* 10:00, 10:02, 10:40 gives idle 38, active 2, percentage 5, longest gap 38.
C10_ActiveTimeWithinSession ==
    (Reported /\ NonDecreasing) =>
        /\ FEq(analysis.total_idle_time, FSum(LongGaps(gaps)))
        /\ FEq(analysis.total_active_time, FSub(SpanMinutes, analysis.total_idle_time))
        /\ FLe(FZero, analysis.total_active_time)
        /\ FLe(analysis.total_active_time, SpanMinutes)
        /\ FLe(FZero, analysis.activity_percentage)
        /\ FLe(analysis.activity_percentage, FromInt(100))
        /\ IsExample =>
               /\ FEq(analysis.total_idle_time, FromInt(38))
               /\ FEq(analysis.total_active_time, FromInt(2))
               /\ FEq(analysis.activity_percentage, FromInt(5))
               /\ FEq(analysis.longest_gap, FromInt(38))

(***************************************************************************)
(* Properties of a run of main (Spec).                                     *)
(***************************************************************************)
\* C1: in analyze_session_file a line that is a well-formed record whose
\* timestamp is not a valid ISO-8601 date-time is skipped: the pass goes on
\* to the next line, total_events and the timestamp sequence are what they
\* were, and no error is raised out of the analysis.
C1_BadTimestampLineSkipped ==
    [][(pc = "read" /\ nread' = nread + 1 /\ IsBadTimestampRecord(line'))
         => /\ pc' = "read"
            /\ exc' = NoExc
            /\ timestamps' = timestamps
            /\ total_events' = total_events]_vars

\* whether main can take a step (ComputeMetrics can whenever pc = "metrics")
CanStep ==
    \/ pc = "metrics"
    \/ ENABLED (\/ MainResolve
                \/ \E c \in Candidates : FindExamine(c)
                \/ FindExhausted
                \/ AnalyzeEnter
                \/ \E l \in LogLines : ReadLine(l)
                \/ ReadEOF
                \/ MainFinish
                \/ MainExcept)

\* C7: once the arguments are parsed main ends by returning an exit status
\* and lets no exception escape: 0 exactly when a metrics report was produced
\* and printed, 1 with a printed message in every other case (the filter
\* excludes every record, the locator fails, any other exception is raised).
C7_MainExitStatus ==
    /\ pc # "crashed"
    /\ pc = "done" =>
           /\ exit_code \in {0, 1}
           /\ exit_code = 0 <=>
                  (exc = NoExc /\ analysis.error = "" /\ printed = "report")
           /\ exit_code = 1 => printed = "error"
           /\ (exc # NoExc \/ analysis = EmptyRange) => exit_code = 1
    /\ pc # "done" => (exit_code = -1 /\ CanStep)

\* the time filter excluded every record of the file: main returned 1
C7_Witness ==
    /\ pc = "done"
    /\ exit_code = 1
    /\ printed = "error"
    /\ analysis = EmptyRange
    /\ parsed # << >>

\* a record that cannot be parsed: invalid JSON, no timestamp field, or a
\* timestamp that is not ISO-8601
Unparseable(l) ==
    \/ l.kind = "garbage"
    \/ l.kind = "object" /\ (l.ts = None \/ l.ts = TsInvalid)

\* a candidate of records with a timestamp or unparseable, its first or its
\* last unparseable
HasUnparseableRecord(c) ==
    /\ c.first.kind \in {"garbage", "object"}
    /\ c.last.kind \in {"garbage", "object"}
    /\ Unparseable(c.first) \/ Unparseable(c.last)

\* C8: in find_session_file a candidate whose first or last record cannot be
\* parsed is skipped and the scan goes on to the remaining candidates, the
\* search failing only with the no-match error after all were examined.
C8_UnparseableCandidateSkipped ==
    [][(pc = "find" /\ examined' = examined + 1 /\ HasUnparseableRecord(cand'))
         => (pc' = "find" /\ exc' = NoExc)]_vars

\* whether the read pass has run to the end of the file
ReadPassDone == pc \in {"metrics", "returned"} \/ (pc = "done" /\ exc = NoExc)

\* start <= t when start is supplied, and t <= end when end is supplied
InWindow(t) ==
    /\ Truthy(args.start) => parse_timestamp(args.start).val.sec <= t.sec
    /\ Truthy(args.end) => t.sec <= parse_timestamp(args.end).val.sec

\* C9: after the read pass the accepted timestamps are exactly the parseable
\* record timestamps t, in source order, with start <= t and t <= end for the
\* bounds that are supplied; total_events is their number, and session_start
\* and session_end are the first and the last of them.
C9_AcceptedAreThoseInWindow ==
    ReadPassDone =>
        /\ timestamps = SelectSeq(parsed, InWindow)
        /\ total_events = Len(timestamps)
        /\ analysis.error = "" =>
               /\ analysis.total_events = Len(timestamps)
               /\ analysis.session_start.sec = timestamps[1].sec
               /\ analysis.session_end.sec = timestamps[Len(timestamps)].sec

\* a record before the start is left out, the records at the start and at the
\* end are kept
C9_Witness ==
    /\ pc = "returned"
    /\ analysis.error = ""
    /\ Truthy(args.start) /\ Truthy(args.end)
    /\ Len(parsed) = 3 /\ Len(timestamps) = 2
    /\ parsed[1].sec < start_dt.sec
    /\ timestamps[1].sec = start_dt.sec
    /\ timestamps[2].sec = end_dt.sec

=============================================================================
